---- MODULE Spec2Model ----
(***************************************************************************)
(* State-machine model of the two request adapters of the repository:      *)
(*   src/netdata/python/request_curl_cffi.py   (requests_with_curl_cffi)   *)
(*   src/netdata/python/request_playwright.py  (requests_with_playwright,  *)
(*                                              get_header_for_requests)   *)
(* SpecCurl drives sequences of requests_with_curl_cffi calls on one       *)
(* caller-owned session; SpecBrowser drives sequences of calls of the two  *)
(* Playwright functions.                                                   *)
(***************************************************************************)
EXTENDS Integers, Sequences, FiniteSets, TLC

\* ------------------------------------------------------------------ bounds
\* number of requests_with_curl_cffi calls made on the one session
MaxCurlCalls == 2
\* number of calls of the two Playwright functions
MaxBrowserCalls == 2
\* number of requests the browser issues during one navigation
MaxRequests == 2

\* ------------------------------------------------------------ Python values
\* a dict is a function whose DOMAIN is its key set
EmptyDict == <<>>

\* dict.update(other): keys of other overwrite, the rest stay
DictUpdate(d, other) ==
  [k \in (DOMAIN d) \cup (DOMAIN other) |->
      IF k \in DOMAIN other THEN other[k] ELSE d[k]]

\* Optional[str]: None, or a string held as its sequence of characters
NoneStr == [isNone |-> TRUE, str |-> <<>>]
Str(s) == [isNone |-> FALSE, str |-> s]

\* str.split(sep) for a one-character separator: the list of the pieces
RECURSIVE Split(_, _)
Split(s, sep) ==
  IF \A i \in 1..Len(s) : s[i] # sep
    THEN <<s>>
    ELSE LET i == CHOOSE j \in 1..Len(s) :
                     s[j] = sep /\ \A k \in 1..(j - 1) : s[k] # sep
         IN  <<SubSeq(s, 1, i - 1)>> \o Split(SubSeq(s, i + 1, Len(s)), sep)

\* ----------------------------------------------------------- input domains
CurlUrls == {"https://example.com"}
CurlTimeouts == {<<5, 10>>}
HeaderDicts ==
  { EmptyDict, [A |-> "1"], [A |-> "2", B |-> "1"] }
ProxyArgs ==
  { NoneStr, Str(<<>>), Str(<<"h">>), Str(<<"u", "@", "h">>),
    Str(<<"u", "@", "p", "@", "h">>) }
\* the session as the caller hands it over: fresh, or already configured
InitSessions ==
  { [headers |-> EmptyDict, proxies |-> EmptyDict],
    [headers |-> [A |-> "0"], proxies |-> [http |-> <<"i">>]] }
\* what the library's response object can hold
Responses ==
  { [text |-> "body", status_code |-> 200, url |-> "https://example.com",
     ok |-> TRUE, reason |-> "OK", cookies |-> [sid |-> "1"]],
    [text |-> "", status_code |-> 404, url |-> "https://example.com/x",
     ok |-> FALSE, reason |-> "Not Found", cookies |-> EmptyDict] }
\* exceptions session.get can raise: Timeout, and other subclasses of Exception
TimeoutExc == "Timeout"
OtherExcs == {"ConnectionError", "ProxyError"}
NoExc == "none"

VARIABLES
  session_headers,   \* session.headers
  session_proxies,   \* session.proxies
  session_init,      \* the session as it was before the first call
  curl_pc,           \* position inside requests_with_curl_cffi ("idle" outside)
  curl_args,         \* arguments of the running call
  get_calls,         \* session.get calls of the running call, each with the
                     \* session settings it was issued under
  get_exc,           \* exception session.get raised in the running call
  curl_outcome,      \* how the running call ended
  stdout,            \* lines printed so far
  stdout_mark,       \* Len(stdout) when the running call began
  curl_history,      \* the (headers, proxy) arguments of every call begun
  live,              \* browser-side resources now alive: [call, kind]
  br_calls,          \* number of Playwright-function calls begun
  br_fn,             \* the Playwright function now running ("none" outside)
  br_pc,             \* position inside it ("idle" outside)
  br_args,           \* arguments of the running call
  steps,             \* library calls the running call has made, in order
  nav_response,      \* what page.goto returned in the running call
  br_exc,            \* exception now propagating (or caught) in the running call
  br_pending,        \* value of the `return` statement awaiting the with-exit
  br_outcome,        \* how the running call ended
  header_dict,       \* the accumulator of get_header_for_requests
  routes,            \* every request the route handler was invoked for, with
                     \* what the handler did to its route
  hdr_failed_at      \* the statement of the try block that raised ("none" if none)

curl_state ==
  << session_headers, session_proxies, session_init, curl_pc, curl_args,
     get_calls, get_exc, curl_outcome, curl_history >>

browser_state ==
  << live, br_calls, br_fn, br_pc, br_args, steps, nav_response, br_exc,
     br_pending, br_outcome, header_dict, routes, hdr_failed_at >>

vars == << curl_state, browser_state, stdout, stdout_mark >>

NoArgs == [url |-> "", timeout |-> <<>>, headers |-> EmptyDict, proxy |-> NoneStr]
NoOutcome == [kind |-> "none"]

\* ------------------------------------------- requests_with_curl_cffi helpers
\* `if proxy:` -- None and "" are falsy
ProxyTruthy_NotNone(proxy) == ~proxy.isNone
ProxyTruthy(proxy) == ~proxy.isNone /\ proxy.str # <<>>

\* {"http": proxy, "https": proxy}
ProxyDict_HttpOnly(proxy) == [http |-> proxy.str]
ProxyDict(proxy) == [http |-> proxy.str, https |-> proxy.str]

\* proxy.split("@")[-1]
ProxyUrl_First(proxy) == Split(proxy.str, "@")[1]
ProxyUrl(proxy) ==
  LET parts == Split(proxy.str, "@") IN parts[Len(parts)]

\* f"Timeout connecting through proxy {proxy_url}"
TimeoutLine(proxy_url) == <<"Timeout connecting through proxy ">> \o proxy_url

\* Response(response.text, ..., response.cookies.get_dict())
ResponseTuple(response) ==
  [content |-> response.text, status_code |-> response.status_code,
   url |-> response.url, ok |-> response.ok, reason |-> response.reason,
   cookies |-> response.cookies]

\* the record of one session.get(url, timeout=timeout)
GetCall ==
  [url |-> curl_args.url, timeout |-> curl_args.timeout,
   headers |-> session_headers, proxies |-> session_proxies]

\* ------------------------------------------- requests_with_curl_cffi actions
\* the caller invokes requests_with_curl_cffi(session, url, timeout, headers, proxy)
CurlCall(url, timeout, headers, proxy) ==
  /\ curl_pc = "idle"
  /\ Len(curl_history) < MaxCurlCalls
  /\ curl_pc' = "l13"
  /\ curl_args' = [url |-> url, timeout |-> timeout, headers |-> headers,
                   proxy |-> proxy]
  /\ get_calls' = <<>>
  /\ get_exc' = NoExc
  /\ curl_outcome' = NoOutcome
  /\ stdout_mark' = Len(stdout)
  /\ curl_history' = Append(curl_history, [headers |-> headers, proxy |-> proxy])
  /\ UNCHANGED << session_headers, session_proxies, session_init, stdout >>
  /\ UNCHANGED browser_state

\* line 13: session.headers.update(headers)
CurlUpdateHeaders ==
  /\ curl_pc = "l13"
  /\ session_headers' = DictUpdate(session_headers, curl_args.headers)
  /\ curl_pc' = "l14"
  /\ UNCHANGED << session_proxies, session_init, curl_args, get_calls, get_exc,
                  curl_outcome, stdout, stdout_mark, curl_history >>
  /\ UNCHANGED browser_state

\* lines 14-15: if proxy: session.proxies.update({...})
CurlUpdateProxies ==
  /\ curl_pc = "l14"
  /\ session_proxies' =
       IF ProxyTruthy(curl_args.proxy)
         THEN DictUpdate(session_proxies, ProxyDict(curl_args.proxy))
         ELSE session_proxies
  /\ curl_pc' = "l17"
  /\ UNCHANGED << session_headers, session_init, curl_args, get_calls, get_exc,
                  curl_outcome, stdout, stdout_mark, curl_history >>
  /\ UNCHANGED browser_state

\* lines 17-19: session.get succeeds, the response is repackaged and returned
CurlGetOk(response) ==
  /\ curl_pc = "l17"
  /\ get_calls' = Append(get_calls, GetCall)
  /\ curl_outcome' = [kind |-> "returned", value |-> ResponseTuple(response)]
  /\ curl_pc' = "ended"
  /\ UNCHANGED << session_headers, session_proxies, session_init, curl_args,
                  get_exc, stdout, stdout_mark, curl_history >>
  /\ UNCHANGED browser_state

\* line 17 raising crequests.exceptions.Timeout: control goes to line 20
CurlGetTimeout ==
  /\ curl_pc = "l17"
  /\ get_calls' = Append(get_calls, GetCall)
  /\ get_exc' = TimeoutExc
  /\ curl_pc' = "l21"
  /\ UNCHANGED << session_headers, session_proxies, session_init, curl_args,
                  curl_outcome, stdout, stdout_mark, curl_history >>
  /\ UNCHANGED browser_state

\* line 17 raising any other Exception: control goes to line 25
CurlGetOtherExc(exc) ==
  /\ curl_pc = "l17"
  /\ get_calls' = Append(get_calls, GetCall)
  /\ get_exc' = exc
  /\ curl_pc' = "l26"
  /\ UNCHANGED << session_headers, session_proxies, session_init, curl_args,
                  curl_outcome, stdout, stdout_mark, curl_history >>
  /\ UNCHANGED browser_state

\* lines 21-23: inside `except Timeout`, proxy truthy: print the diagnostic
CurlTimeoutLog ==
  /\ curl_pc = "l21"
  /\ ProxyTruthy(curl_args.proxy)
  /\ stdout' = Append(stdout, TimeoutLine(ProxyUrl(curl_args.proxy)))
  /\ curl_pc' = "l24"
  /\ UNCHANGED << session_headers, session_proxies, session_init, curl_args,
                  get_calls, get_exc, curl_outcome, stdout_mark, curl_history >>
  /\ UNCHANGED browser_state

\* line 24: the bare `raise` inside `if proxy:` re-raises the caught Timeout
CurlTimeoutRaise ==
  /\ curl_pc = "l24"
  /\ curl_outcome' = [kind |-> "raised", exc |-> get_exc]
  /\ curl_pc' = "ended"
  /\ UNCHANGED << session_headers, session_proxies, session_init, curl_args,
                  get_calls, get_exc, stdout, stdout_mark, curl_history >>
  /\ UNCHANGED browser_state

\* line 21 with a falsy proxy: the `if` body (print and raise) is skipped, the
\* handler ends, the function runs off its end and returns None
CurlTimeoutFallThrough ==
  /\ curl_pc = "l21"
  /\ ~ProxyTruthy(curl_args.proxy)
  /\ curl_outcome' = [kind |-> "returned", value |-> "None"]
  /\ curl_pc' = "ended"
  /\ UNCHANGED << session_headers, session_proxies, session_init, curl_args,
                  get_calls, get_exc, stdout, stdout_mark, curl_history >>
  /\ UNCHANGED browser_state

\* lines 25-26: `except Exception: raise`
CurlOtherRaise_Retry ==
  /\ curl_pc = "l26"
  /\ curl_pc' = "l17"
  /\ UNCHANGED << session_headers, session_proxies, session_init, curl_args,
                  get_calls, get_exc, curl_outcome, stdout, stdout_mark,
                  curl_history >>
  /\ UNCHANGED browser_state
CurlOtherRaise ==
  /\ curl_pc = "l26"
  /\ curl_outcome' = [kind |-> "raised", exc |-> get_exc]
  /\ curl_pc' = "ended"
  /\ UNCHANGED << session_headers, session_proxies, session_init, curl_args,
                  get_calls, get_exc, stdout, stdout_mark, curl_history >>
  /\ UNCHANGED browser_state

\* the caller takes the result (or the exception); the session lives on
CurlDone ==
  /\ curl_pc = "ended"
  /\ curl_pc' = "idle"
  /\ curl_args' = NoArgs
  /\ get_calls' = <<>>
  /\ get_exc' = NoExc
  /\ curl_outcome' = NoOutcome
  /\ stdout_mark' = Len(stdout)
  /\ UNCHANGED << session_headers, session_proxies, session_init, stdout,
                  curl_history >>
  /\ UNCHANGED browser_state

CurlInit ==
  /\ session_init \in InitSessions
  /\ session_headers = session_init.headers
  /\ session_proxies = session_init.proxies
  /\ curl_pc = "idle"
  /\ curl_args = NoArgs
  /\ get_calls = <<>>
  /\ get_exc = NoExc
  /\ curl_outcome = NoOutcome
  /\ stdout = <<>>
  /\ stdout_mark = 0
  /\ curl_history = <<>>

CurlNext ==
  \/ \E url \in CurlUrls, timeout \in CurlTimeouts, headers \in HeaderDicts,
        proxy \in ProxyArgs : CurlCall(url, timeout, headers, proxy)
  \/ CurlUpdateHeaders
  \/ CurlUpdateProxies
  \/ \E response \in Responses : CurlGetOk(response)
  \/ CurlGetTimeout
  \/ \E exc \in OtherExcs : CurlGetOtherExc(exc)
  \/ CurlTimeoutLog
  \/ CurlTimeoutRaise
  \/ CurlTimeoutFallThrough
  \/ CurlOtherRaise
  \/ CurlDone

\* ===================================================== request_playwright.py
USER_AGENT ==
  "Mozilla/5.0 (X11; Linux x86_64) AppleWebKit/537.36 (KHTML, like Gecko) Chrome/134.0.0.0 Safari/537.36"
VIEWPORT == [width |-> 1920, height |-> 1080]

\* Optional[dict[str, str]]
NoneDict == [isNone |-> TRUE, dict |-> EmptyDict]
Dict(d) == [isNone |-> FALSE, dict |-> d]

\* ----------------------------------------------------------- input domains
BrUrls == {"https://example.com"}
BrTimeouts == {1, 30}
BrProxies == { NoneDict, Dict(EmptyDict), Dict([server |-> "http://p:1"]) }
BrWaits == {0, 2}
\* Optional[str] page_evaluation: None, "", or a script
Scripts == { NoneStr, Str(<<>>), Str(<<"j", "s">>) }
\* what page.goto can return: a response, or None (the library's Optional[Response])
NoneResponse == [isNone |-> TRUE, status |-> 0, ok |-> FALSE, status_text |-> ""]
NavResponses ==
  { NoneResponse,
    [isNone |-> FALSE, status |-> 200, ok |-> TRUE, status_text |-> "OK"],
    [isNone |-> FALSE, status |-> 404, ok |-> FALSE, status_text |-> "Not Found"] }
\* what the page holds when it is read
Pages == { [content |-> "<html>", url |-> "https://example.com/"] }
\* requests the browser can issue while it navigates
Requests ==
  [ url : {"https://example.com/", "https://example.com/a.js"},
    headers : { [accept |-> "*/*"], [accept |-> "text/html"] } ]
\* exceptions the library raises
BrExcs == {"Error", "TimeoutError"}

NoBrArgs == [url |-> ""]
NoValue == [kind |-> "none"]
NoFailure == [stmt |-> "none", exc |-> NoExc]
Outcomes == {"ok"} \cup BrExcs

\* ----------------------------------------------------------------- helpers
\* `if proxy:` on an Optional[dict] -- None and {} are falsy
DictTruthy(proxy) == ~proxy.isNone /\ DOMAIN proxy.dict # {}

\* `if page_evaluation:` -- None and "" are falsy
ScriptTruthy_NotNone(page_evaluation) == ~page_evaluation.isNone
ScriptTruthy(page_evaluation) ==
  ~page_evaluation.isNone /\ page_evaluation.str # <<>>

\* timeout=timeout * 1000 in requests_with_playwright
PwGotoTimeout_Seconds(timeout) == timeout
PwGotoTimeout(timeout) == timeout * 1000

\* timeout=timeout * 1000 in get_header_for_requests
HdrGotoTimeout_Seconds(timeout) == timeout
HdrGotoTimeout(timeout) == timeout * 1000

\* a resource acquired by the running call
Res(kind) == [call |-> br_calls, kind |-> kind]

\* what goes away when the driver entered by `with` is stopped: that driver and
\* everything launched through it (browser, contexts, pages)
WithScoped == { Res("driver_with"), Res("browser"), Res("context"), Res("page") }

\* what browser.close() closes: the browser, its contexts and their pages
BrowserScoped == { Res("browser"), Res("context"), Res("page") }

\* playwright.<engine>.launch(headless=headless[, proxy=proxy])
LaunchCall(engine) ==
  [op |-> "launch", engine |-> engine, headless |-> br_args.headless,
   with_proxy |-> DictTruthy(br_args.proxy),
   proxy |-> IF DictTruthy(br_args.proxy) THEN br_args.proxy.dict ELSE EmptyDict]

\* browser.new_context(viewport=VIEWPORT, user_agent=USER_AGENT)
NewContextCall ==
  [op |-> "new_context", viewport |-> VIEWPORT, user_agent |-> USER_AGENT]

\* "Fail to load header from {}. {}".format(url, e)
FailLine(url, e) == <<"Fail to load header from ", url, ". ", e>>

\* Response(page.content(), response.status, page.url, response.ok, response.status_text)
PwResponseTuple(page, response) ==
  [content |-> page.content, status_code |-> response.status, url |-> page.url,
   ok |-> response.ok, reason |-> response.status_text]

\* log_request(route, request), lines 50-52: header_dict[url] = header
LogRequestDict(dict, request) ==
  DictUpdate(dict, (request.url :> request.headers))

\* log_request(route, request), line 53: route.continue_()
LogRequestRoute_SkipSeen(route, request, dict) ==
  IF request.url \in DOMAIN dict
    THEN route
    ELSE [route EXCEPT !.continued = @ + 1]
LogRequestRoute(route, request, dict) ==
  [route EXCEPT !.continued = @ + 1]

\* a route as the browser hands it to the handler: nothing decided yet
NewRoute(request) ==
  [url |-> request.url, headers |-> request.headers, continued |-> 0,
   aborted |-> FALSE, fulfilled |-> FALSE]

BrowserInit ==
  /\ live = {}
  /\ br_calls = 0
  /\ br_fn = "none"
  /\ br_pc = "idle"
  /\ br_args = NoBrArgs
  /\ steps = <<>>
  /\ nav_response = NoneResponse
  /\ br_exc = NoExc
  /\ br_pending = NoValue
  /\ br_outcome = NoOutcome
  /\ header_dict = EmptyDict
  /\ routes = <<>>
  /\ hdr_failed_at = NoFailure

\* ------------------------------------------ requests_with_playwright actions
\* the caller invokes requests_with_playwright(url, timeout, proxy, headless,
\* browser_wait, page_evaluation)
PwCall(url, timeout, proxy, headless, browser_wait, page_evaluation) ==
  /\ br_pc = "idle"
  /\ br_calls < MaxBrowserCalls
  /\ br_calls' = br_calls + 1
  /\ br_fn' = "requests_with_playwright"
  /\ br_pc' = "l17"
  /\ br_args' = [url |-> url, timeout |-> timeout, proxy |-> proxy,
                  headless |-> headless, browser_wait |-> browser_wait,
                  page_evaluation |-> page_evaluation]
  /\ stdout_mark' = Len(stdout)
  /\ UNCHANGED << live, steps, nav_response, br_exc, br_pending, br_outcome,
                  header_dict, routes, hdr_failed_at, stdout >>
  /\ UNCHANGED curl_state

\* line 17: sync_playwright().start() starts a driver; the object is dropped, so
\* nothing in the function can stop it
PwStart ==
  /\ br_fn = "requests_with_playwright"
  /\ br_pc = "l17"
  /\ live' = live \cup {Res("driver_started")}
  /\ steps' = Append(steps, [op |-> "start"])
  /\ br_pc' = "l18"
  /\ UNCHANGED << br_calls, br_fn, br_args, nav_response, br_exc, br_pending,
                  br_outcome, header_dict, routes, hdr_failed_at, stdout,
                  stdout_mark >>
  /\ UNCHANGED curl_state

\* line 18: `with sync_playwright() as playwright` starts a second driver; when
\* __enter__ raises, no __exit__ runs and the exception leaves the function
PwWithEnter(r) ==
  /\ br_fn = "requests_with_playwright"
  /\ br_pc = "l18"
  /\ steps' = Append(steps, [op |-> "with_enter"])
  /\ live' = IF r = "ok" THEN live \cup {Res("driver_with")} ELSE live
  /\ br_pc' = IF r = "ok" THEN "l19" ELSE "ended"
  /\ br_outcome' = IF r = "ok" THEN br_outcome ELSE [kind |-> "raised", exc |-> r]
  /\ UNCHANGED << br_calls, br_fn, br_args, nav_response, br_exc, br_pending,
                  header_dict, routes, hdr_failed_at, stdout, stdout_mark >>
  /\ UNCHANGED curl_state

\* lines 19-22: playwright.firefox.launch(...), with proxy=proxy when proxy is truthy
PwLaunch(r) ==
  /\ br_fn = "requests_with_playwright"
  /\ br_pc = "l19"
  /\ steps' = Append(steps, LaunchCall("firefox"))
  /\ br_pc' = IF r = "ok" THEN "l23" ELSE "exit"
  /\ br_exc' = IF r = "ok" THEN br_exc ELSE r
  /\ live' = IF r = "ok" THEN live \cup {Res("browser")} ELSE live
  /\ UNCHANGED << br_calls, br_fn, br_args, nav_response, br_pending,
                  br_outcome, header_dict, routes, hdr_failed_at, stdout,
                  stdout_mark >>
  /\ UNCHANGED curl_state

\* lines 23-26: browser.new_context(viewport=VIEWPORT, user_agent=USER_AGENT)
PwNewContext(r) ==
  /\ br_fn = "requests_with_playwright"
  /\ br_pc = "l23"
  /\ steps' = Append(steps, NewContextCall)
  /\ br_pc' = IF r = "ok" THEN "l27" ELSE "exit"
  /\ br_exc' = IF r = "ok" THEN br_exc ELSE r
  /\ live' = IF r = "ok" THEN live \cup {Res("context")} ELSE live
  /\ UNCHANGED << br_calls, br_fn, br_args, nav_response, br_pending,
                  br_outcome, header_dict, routes, hdr_failed_at, stdout,
                  stdout_mark >>
  /\ UNCHANGED curl_state

\* line 27: context.new_page()
PwNewPage(r) ==
  /\ br_fn = "requests_with_playwright"
  /\ br_pc = "l27"
  /\ steps' = Append(steps, [op |-> "new_page"])
  /\ br_pc' = IF r = "ok" THEN "l28" ELSE "exit"
  /\ br_exc' = IF r = "ok" THEN br_exc ELSE r
  /\ live' = IF r = "ok" THEN live \cup {Res("page")} ELSE live
  /\ UNCHANGED << br_calls, br_fn, br_args, nav_response, br_pending,
                  br_outcome, header_dict, routes, hdr_failed_at, stdout,
                  stdout_mark >>
  /\ UNCHANGED curl_state

\* lines 28-29: page.goto(url, timeout=timeout * 1000) returns; then `if page_evaluation:`
PwGoto(response) ==
  /\ br_fn = "requests_with_playwright"
  /\ br_pc = "l28"
  /\ steps' = Append(steps, [op |-> "goto", url |-> br_args.url,
                             timeout |-> PwGotoTimeout(br_args.timeout)])
  /\ nav_response' = response
  /\ br_pc' = IF ScriptTruthy(br_args.page_evaluation) THEN "l30" ELSE "l31"
  /\ UNCHANGED << live, br_calls, br_fn, br_args, br_exc, br_pending,
                  br_outcome, header_dict, routes, hdr_failed_at, stdout,
                  stdout_mark >>
  /\ UNCHANGED curl_state

\* line 28: page.goto raises (navigation error or timeout)
PwGotoRaise(exc) ==
  /\ br_fn = "requests_with_playwright"
  /\ br_pc = "l28"
  /\ steps' = Append(steps, [op |-> "goto", url |-> br_args.url,
                             timeout |-> PwGotoTimeout(br_args.timeout)])
  /\ br_exc' = exc
  /\ br_pc' = "exit"
  /\ UNCHANGED << live, br_calls, br_fn, br_args, nav_response, br_pending,
                  br_outcome, header_dict, routes, hdr_failed_at, stdout,
                  stdout_mark >>
  /\ UNCHANGED curl_state

\* line 30: page.evaluate(page_evaluation)
PwEvaluate(r) ==
  /\ br_fn = "requests_with_playwright"
  /\ br_pc = "l30"
  /\ steps' = Append(steps, [op |-> "evaluate", script |-> br_args.page_evaluation.str])
  /\ br_pc' = IF r = "ok" THEN "l31" ELSE "exit"
  /\ br_exc' = IF r = "ok" THEN br_exc ELSE r
  /\ UNCHANGED << live, br_calls, br_fn, br_args, nav_response, br_pending,
                  br_outcome, header_dict, routes, hdr_failed_at, stdout,
                  stdout_mark >>
  /\ UNCHANGED curl_state

\* line 31: time.sleep(browser_wait)
PwSleep ==
  /\ br_fn = "requests_with_playwright"
  /\ br_pc = "l31"
  /\ steps' = Append(steps, [op |-> "sleep", secs |-> br_args.browser_wait])
  /\ br_pc' = "l32"
  /\ UNCHANGED << live, br_calls, br_fn, br_args, nav_response, br_exc,
                  br_pending, br_outcome, header_dict, routes, hdr_failed_at,
                  stdout, stdout_mark >>
  /\ UNCHANGED curl_state

\* line 32: page.content() may raise; response.status raises AttributeError when
\* goto returned None; otherwise response_tuple is built
PwCapture(r, page) ==
  /\ br_fn = "requests_with_playwright"
  /\ br_pc = "l32"
  /\ steps' = Append(steps, [op |-> "capture"])
  /\ IF r # "ok"
       THEN /\ br_exc' = r
            /\ br_pc' = "exit"
            /\ UNCHANGED br_pending
       ELSE IF nav_response.isNone
         THEN /\ br_exc' = "AttributeError"
              /\ br_pc' = "exit"
              /\ UNCHANGED br_pending
         ELSE /\ br_pending' = [kind |-> "value",
                                value |-> PwResponseTuple(page, nav_response)]
              /\ br_pc' = "l33"
              /\ UNCHANGED br_exc
  /\ UNCHANGED << live, br_calls, br_fn, br_args, nav_response, br_outcome,
                  header_dict, routes, hdr_failed_at, stdout, stdout_mark >>
  /\ UNCHANGED curl_state

\* line 33: browser.close()
PwClose(r) ==
  /\ br_fn = "requests_with_playwright"
  /\ br_pc = "l33"
  /\ steps' = Append(steps, [op |-> "close"])
  /\ br_pc' = IF r = "ok" THEN "l34" ELSE "exit"
  /\ br_exc' = IF r = "ok" THEN br_exc ELSE r
  /\ live' = IF r = "ok" THEN live \ BrowserScoped ELSE live
  /\ UNCHANGED << br_calls, br_fn, br_args, nav_response, br_pending,
                  br_outcome, header_dict, routes, hdr_failed_at, stdout,
                  stdout_mark >>
  /\ UNCHANGED curl_state

\* line 34: return response_tuple, which leaves the with block
PwReturn ==
  /\ br_fn = "requests_with_playwright"
  /\ br_pc = "l34"
  /\ br_pc' = "exit"
  /\ UNCHANGED << live, br_calls, br_fn, br_args, steps, nav_response,
                  br_exc, br_pending, br_outcome, header_dict, routes,
                  hdr_failed_at, stdout, stdout_mark >>
  /\ UNCHANGED curl_state

\* line 18, __exit__ of the with block: the driver it entered is stopped, on the
\* return path and on the exception path alike
PwWithExit ==
  /\ br_fn = "requests_with_playwright"
  /\ br_pc = "exit"
  /\ live' = live \ WithScoped
  /\ br_outcome' = IF br_exc # NoExc THEN [kind |-> "raised", exc |-> br_exc]
                               ELSE [kind |-> "returned", value |-> br_pending.value]
  /\ br_pc' = "ended"
  /\ UNCHANGED << br_calls, br_fn, br_args, steps, nav_response, br_exc,
                  br_pending, header_dict, routes, hdr_failed_at, stdout,
                  stdout_mark >>
  /\ UNCHANGED curl_state

\* the caller takes the result (or the exception) of requests_with_playwright
PwDone ==
  /\ br_fn = "requests_with_playwright"
  /\ br_pc = "ended"
  /\ br_fn' = "none"
  /\ br_pc' = "idle"
  /\ br_args' = NoBrArgs
  /\ steps' = <<>>
  /\ nav_response' = NoneResponse
  /\ br_exc' = NoExc
  /\ br_pending' = NoValue
  /\ br_outcome' = NoOutcome
  /\ header_dict' = EmptyDict
  /\ routes' = <<>>
  /\ hdr_failed_at' = NoFailure
  /\ stdout_mark' = Len(stdout)
  /\ UNCHANGED << live, br_calls, stdout >>
  /\ UNCHANGED curl_state

\* ------------------------------------------- get_header_for_requests actions
\* the caller invokes get_header_for_requests(url, timeout, proxy, headless)
HdrCall(url, timeout, proxy, headless) ==
  /\ br_pc = "idle"
  /\ br_calls < MaxBrowserCalls
  /\ br_calls' = br_calls + 1
  /\ br_fn' = "get_header_for_requests"
  /\ br_pc' = "l38"
  /\ br_args' = [url |-> url, timeout |-> timeout, proxy |-> proxy,
                  headless |-> headless]
  /\ stdout_mark' = Len(stdout)
  /\ UNCHANGED << live, steps, nav_response, br_exc, br_pending, br_outcome,
                  header_dict, routes, hdr_failed_at, stdout >>
  /\ UNCHANGED curl_state

\* lines 38-39: `with sync_playwright() as playwright` starts a driver, then
\* header_dict = {}; when __enter__ raises the exception leaves the function
HdrWithEnter(r) ==
  /\ br_fn = "get_header_for_requests"
  /\ br_pc = "l38"
  /\ steps' = Append(steps, [op |-> "with_enter"])
  /\ live' = IF r = "ok" THEN live \cup {Res("driver_with")} ELSE live
  /\ header_dict' = EmptyDict
  /\ br_pc' = IF r = "ok" THEN "l40" ELSE "ended"
  /\ br_outcome' = IF r = "ok" THEN br_outcome ELSE [kind |-> "raised", exc |-> r]
  /\ UNCHANGED << br_calls, br_fn, br_args, nav_response, br_exc, br_pending,
                  routes, hdr_failed_at, stdout, stdout_mark >>
  /\ UNCHANGED curl_state

\* lines 40-43: playwright.chromium.launch(...), with proxy=proxy when proxy is truthy
HdrLaunch(r) ==
  /\ br_fn = "get_header_for_requests"
  /\ br_pc = "l40"
  /\ steps' = Append(steps, LaunchCall("chromium"))
  /\ br_pc' = IF r = "ok" THEN "l44" ELSE "exit"
  /\ br_exc' = IF r = "ok" THEN br_exc ELSE r
  /\ live' = IF r = "ok" THEN live \cup {Res("browser")} ELSE live
  /\ UNCHANGED << br_calls, br_fn, br_args, nav_response, br_pending,
                  br_outcome, header_dict, routes, hdr_failed_at, stdout,
                  stdout_mark >>
  /\ UNCHANGED curl_state

\* lines 44-47: browser.new_context(viewport=VIEWPORT, user_agent=USER_AGENT)
HdrNewContext(r) ==
  /\ br_fn = "get_header_for_requests"
  /\ br_pc = "l44"
  /\ steps' = Append(steps, NewContextCall)
  /\ br_pc' = IF r = "ok" THEN "l55" ELSE "exit"
  /\ br_exc' = IF r = "ok" THEN br_exc ELSE r
  /\ live' = IF r = "ok" THEN live \cup {Res("context")} ELSE live
  /\ UNCHANGED << br_calls, br_fn, br_args, nav_response, br_pending,
                  br_outcome, header_dict, routes, hdr_failed_at, stdout,
                  stdout_mark >>
  /\ UNCHANGED curl_state

\* line 55: context.route("**/*", log_request)
HdrRoute(r) ==
  /\ br_fn = "get_header_for_requests"
  /\ br_pc = "l55"
  /\ steps' = Append(steps, [op |-> "route", pattern |-> "**/*"])
  /\ br_pc' = IF r = "ok" THEN "l57" ELSE "exit"
  /\ br_exc' = IF r = "ok" THEN br_exc ELSE r
  /\ UNCHANGED << live, br_calls, br_fn, br_args, nav_response, br_pending,
                  br_outcome, header_dict, routes, hdr_failed_at, stdout,
                  stdout_mark >>
  /\ UNCHANGED curl_state

\* lines 56-57: inside try, context.new_page(); a failure goes to the except clause
HdrNewPage(r) ==
  /\ br_fn = "get_header_for_requests"
  /\ br_pc = "l57"
  /\ steps' = Append(steps, [op |-> "new_page"])
  /\ br_pc' = IF r = "ok" THEN "l58" ELSE "l63"
  /\ br_exc' = IF r = "ok" THEN br_exc ELSE r
  /\ live' = IF r = "ok" THEN live \cup {Res("page")} ELSE live
  /\ hdr_failed_at' = IF r = "ok" THEN hdr_failed_at ELSE [stmt |-> "new_page", exc |-> r]
  /\ UNCHANGED << br_calls, br_fn, br_args, nav_response, br_pending,
                  br_outcome, header_dict, routes, stdout, stdout_mark >>
  /\ UNCHANGED curl_state

\* while page.goto is under way the browser issues a request, the route matches
\* it and log_request(route, request) runs (lines 49-53)
HdrIntercept(request) ==
  /\ br_fn = "get_header_for_requests"
  /\ br_pc = "l58"
  /\ Len(routes) < MaxRequests
  /\ header_dict' = LogRequestDict(header_dict, request)
  /\ routes' = Append(routes, LogRequestRoute(NewRoute(request), request, header_dict))
  /\ UNCHANGED << live, br_calls, br_fn, br_pc, br_args, steps, nav_response,
                  br_exc, br_pending, br_outcome, hdr_failed_at, stdout,
                  stdout_mark >>
  /\ UNCHANGED curl_state

\* line 58: page.goto(url, timeout=timeout * 1000) returns
HdrGoto ==
  /\ br_fn = "get_header_for_requests"
  /\ br_pc = "l58"
  /\ steps' = Append(steps, [op |-> "goto", url |-> br_args.url,
                             timeout |-> HdrGotoTimeout(br_args.timeout)])
  /\ br_pc' = "l60"
  /\ UNCHANGED << live, br_calls, br_fn, br_args, nav_response, br_exc,
                  br_pending, br_outcome, header_dict, routes, hdr_failed_at,
                  stdout, stdout_mark >>
  /\ UNCHANGED curl_state

\* line 58: page.goto raises; control goes to the except clause
HdrGotoRaise(exc) ==
  /\ br_fn = "get_header_for_requests"
  /\ br_pc = "l58"
  /\ steps' = Append(steps, [op |-> "goto", url |-> br_args.url,
                             timeout |-> HdrGotoTimeout(br_args.timeout)])
  /\ br_exc' = exc
  /\ hdr_failed_at' = [stmt |-> "goto", exc |-> exc]
  /\ br_pc' = "l63"
  /\ UNCHANGED << live, br_calls, br_fn, br_args, nav_response, br_pending,
                  br_outcome, header_dict, routes, stdout, stdout_mark >>
  /\ UNCHANGED curl_state

\* line 60: browser.close(), still inside try
HdrClose(r) ==
  /\ br_fn = "get_header_for_requests"
  /\ br_pc = "l60"
  /\ steps' = Append(steps, [op |-> "close"])
  /\ br_pc' = IF r = "ok" THEN "l64" ELSE "l63"
  /\ br_exc' = IF r = "ok" THEN br_exc ELSE r
  /\ live' = IF r = "ok" THEN live \ BrowserScoped ELSE live
  /\ hdr_failed_at' = IF r = "ok" THEN hdr_failed_at ELSE [stmt |-> "close", exc |-> r]
  /\ UNCHANGED << br_calls, br_fn, br_args, nav_response, br_pending,
                  br_outcome, header_dict, routes, stdout, stdout_mark >>
  /\ UNCHANGED curl_state

\* lines 62-63 had the handler ended with `raise`
HdrExcept_Reraise ==
  /\ br_fn = "get_header_for_requests"
  /\ br_pc = "l63"
  /\ stdout' = Append(stdout, FailLine(br_args.url, br_exc))
  /\ br_pc' = "exit"
  /\ UNCHANGED << live, br_calls, br_fn, br_args, steps, nav_response,
                  br_exc, br_pending, br_outcome, header_dict, routes,
                  hdr_failed_at, stdout_mark >>
  /\ UNCHANGED curl_state

\* lines 62-63: except Exception as e: print(...); the exception is swallowed
HdrExcept ==
  /\ br_fn = "get_header_for_requests"
  /\ br_pc = "l63"
  /\ stdout' = Append(stdout, FailLine(br_args.url, br_exc))
  /\ br_exc' = NoExc
  /\ br_pc' = "l64"
  /\ UNCHANGED << live, br_calls, br_fn, br_args, steps, nav_response,
                  br_pending, br_outcome, header_dict, routes, hdr_failed_at,
                  stdout_mark >>
  /\ UNCHANGED curl_state

\* line 64: return header_dict, which leaves the with block
HdrReturn ==
  /\ br_fn = "get_header_for_requests"
  /\ br_pc = "l64"
  /\ br_pending' = [kind |-> "value", value |-> header_dict]
  /\ br_pc' = "exit"
  /\ UNCHANGED << live, br_calls, br_fn, br_args, steps, nav_response,
                  br_exc, br_outcome, header_dict, routes, hdr_failed_at,
                  stdout, stdout_mark >>
  /\ UNCHANGED curl_state

\* line 38, __exit__ of the with block: the driver is stopped, and with it
\* whatever was launched through it, on the return path and the exception path
HdrWithExit ==
  /\ br_fn = "get_header_for_requests"
  /\ br_pc = "exit"
  /\ live' = live \ WithScoped
  /\ br_outcome' = IF br_exc # NoExc THEN [kind |-> "raised", exc |-> br_exc]
                               ELSE [kind |-> "returned", value |-> br_pending.value]
  /\ br_pc' = "ended"
  /\ UNCHANGED << br_calls, br_fn, br_args, steps, nav_response, br_exc,
                  br_pending, header_dict, routes, hdr_failed_at, stdout,
                  stdout_mark >>
  /\ UNCHANGED curl_state

\* the caller takes the result (or the exception) of get_header_for_requests
HdrDone ==
  /\ br_fn = "get_header_for_requests"
  /\ br_pc = "ended"
  /\ br_fn' = "none"
  /\ br_pc' = "idle"
  /\ br_args' = NoBrArgs
  /\ steps' = <<>>
  /\ nav_response' = NoneResponse
  /\ br_exc' = NoExc
  /\ br_pending' = NoValue
  /\ br_outcome' = NoOutcome
  /\ header_dict' = EmptyDict
  /\ routes' = <<>>
  /\ hdr_failed_at' = NoFailure
  /\ stdout_mark' = Len(stdout)
  /\ UNCHANGED << live, br_calls, stdout >>
  /\ UNCHANGED curl_state

BrowserNext ==
  \/ \E url \in BrUrls, timeout \in BrTimeouts, proxy \in BrProxies,
        headless \in BOOLEAN, browser_wait \in BrWaits,
        page_evaluation \in Scripts :
          PwCall(url, timeout, proxy, headless, browser_wait, page_evaluation)
  \/ PwStart
  \/ \E r \in Outcomes : PwWithEnter(r)
  \/ \E r \in Outcomes : PwLaunch(r)
  \/ \E r \in Outcomes : PwNewContext(r)
  \/ \E r \in Outcomes : PwNewPage(r)
  \/ \E response \in NavResponses : PwGoto(response)
  \/ \E exc \in BrExcs : PwGotoRaise(exc)
  \/ \E r \in Outcomes : PwEvaluate(r)
  \/ PwSleep
  \/ \E r \in Outcomes, page \in Pages : PwCapture(r, page)
  \/ \E r \in Outcomes : PwClose(r)
  \/ PwReturn
  \/ PwWithExit
  \/ PwDone
  \/ \E url \in BrUrls, timeout \in BrTimeouts, proxy \in BrProxies,
        headless \in BOOLEAN : HdrCall(url, timeout, proxy, headless)
  \/ \E r \in Outcomes : HdrWithEnter(r)
  \/ \E r \in Outcomes : HdrLaunch(r)
  \/ \E r \in Outcomes : HdrNewContext(r)
  \/ \E r \in Outcomes : HdrRoute(r)
  \/ \E r \in Outcomes : HdrNewPage(r)
  \/ \E request \in Requests : HdrIntercept(request)
  \/ HdrGoto
  \/ \E exc \in BrExcs : HdrGotoRaise(exc)
  \/ \E r \in Outcomes : HdrClose(r)
  \/ HdrExcept
  \/ HdrReturn
  \/ HdrWithExit
  \/ HdrDone

\* ---------------------------------------------------------- specifications
Init == CurlInit /\ BrowserInit

\* calls of requests_with_curl_cffi on one session
SpecCurl == Init /\ [][CurlNext]_vars

\* calls of requests_with_playwright and get_header_for_requests
SpecBrowser == Init /\ [][BrowserNext]_vars

\* ================================================================== claims
Max(S) == CHOOSE x \in S : \A y \in S : y <= x

\* the proxy argument is a non-empty string
Supplied(proxy) == ~proxy.isNone /\ Len(proxy.str) > 0

\* the text after the last "@" of s (all of s when it has none)
AfterLastAt(s) ==
  LET ats == { i \in 1..Len(s) : s[i] = "@" }
  IN  IF ats = {} THEN s ELSE SubSeq(s, Max(ats) + 1, Len(s))

\* lines printed since the running call began
Printed == SubSeq(stdout, stdout_mark + 1, Len(stdout))

\* C1 (as claimed): whenever session.get failed, the call ends by raising that
\* same error; it never returns normally.
C1_GetFailureReraised ==
  (curl_pc = "ended" /\ get_exc # NoExc)
    => (curl_outcome.kind = "raised" /\ curl_outcome.exc = get_exc)

\* C2: a timeout of session.get under a non-empty proxy prints exactly one line,
\* before the error leaves the function; the proxy text in it is what follows
\* the proxy's last "@" (so it holds no "@"), and the error raised is the
\* original timeout.
C2_ProxyTimeoutLoggedOnce ==
  (get_exc = TimeoutExc /\ Supplied(curl_args.proxy)) =>
    /\ curl_pc = "l21" => Printed = <<>>
    /\ curl_pc \in {"l24", "ended"} =>
         /\ Len(Printed) = 1
         /\ Printed[1] = <<"Timeout connecting through proxy ">>
                           \o AfterLastAt(curl_args.proxy.str)
         /\ \A i \in 2..Len(Printed[1]) : Printed[1][i] # "@"
    /\ curl_pc = "l24" => curl_outcome.kind = "none"
    /\ curl_pc = "ended" =>
         (curl_outcome.kind = "raised" /\ curl_outcome.exc = TimeoutExc)

C2_Witness ==
  /\ curl_pc = "ended"
  /\ get_exc = TimeoutExc
  /\ curl_args.proxy = Str(<<"u", "@", "p", "@", "h">>)
  /\ curl_outcome.kind = "raised"
  /\ Len(Printed) = 1

\* C6: with a non-empty proxy, the GET is issued while session.proxies maps both
\* "http" and "https" to the supplied proxy and session.headers holds every
\* supplied header with the supplied value.
C6_ProxyAndHeadersVisibleAtGet ==
  Supplied(curl_args.proxy) =>
    \A i \in 1..Len(get_calls) :
      /\ {"http", "https"} \subseteq DOMAIN get_calls[i].proxies
      /\ get_calls[i].proxies["http"] = curl_args.proxy.str
      /\ get_calls[i].proxies["https"] = curl_args.proxy.str
      /\ \A k \in DOMAIN curl_args.headers :
           /\ k \in DOMAIN get_calls[i].headers
           /\ get_calls[i].headers[k] = curl_args.headers[k]

C6_Witness ==
  /\ Len(get_calls) = 1
  /\ curl_args.proxy = Str(<<"u", "@", "h">>)
  /\ curl_args.headers = [A |-> "2", B |-> "1"]
  /\ session_init.proxies = [http |-> <<"i">>]

\* C7: a call issues exactly one GET on every path (success, timeout with and
\* without proxy, other failure): never a second one, and one by the time it ends.
C7_ExactlyOneGet ==
  /\ Len(get_calls) <= 1
  /\ curl_pc \in {"l21", "l24", "l26", "ended"} => Len(get_calls) = 1

C7_Witness ==
  /\ curl_pc = "ended"
  /\ get_exc \in OtherExcs
  /\ curl_outcome.kind = "raised"
  /\ Len(get_calls) = 1

\* session.proxies after the calls of hist, told from the arguments alone: both
\* schemes hold the proxy of the latest call that supplied one
ExpectedProxies(init, hist) ==
  LET gave == { i \in 1..Len(hist) : Supplied(hist[i].proxy) }
  IN  IF gave = {} THEN init
      ELSE [k \in (DOMAIN init) \cup {"http", "https"} |->
              IF k \in {"http", "https"} THEN hist[Max(gave)].proxy.str
                                         ELSE init[k]]

\* session.headers after the calls of hist: each name holds the value of the
\* latest call that supplied it, else its initial value
ExpectedHeaders(init, hist) ==
  LET gave(k) == { i \in 1..Len(hist) : k \in DOMAIN hist[i].headers }
      names == (DOMAIN init) \cup UNION { DOMAIN hist[i].headers : i \in 1..Len(hist) }
  IN  [k \in names |->
         IF gave(k) = {} THEN init[k] ELSE hist[Max(gave(k))].headers[k]]

\* C10: a call with proxy None or "" leaves session.proxies as it found it, so
\* its GET goes out with the proxies of the latest earlier call that supplied a
\* proxy (the initial ones if none did); headers of earlier calls stay in
\* session.headers unless a later call gave the same name.
C10_FalsyProxyKeepsSession ==
  curl_pc # "idle" =>
    LET earlier == SubSeq(curl_history, 1, Len(curl_history) - 1) IN
    /\ ~Supplied(curl_args.proxy) =>
         /\ session_proxies = ExpectedProxies(session_init.proxies, earlier)
         /\ \A i \in 1..Len(get_calls) :
              get_calls[i].proxies = ExpectedProxies(session_init.proxies, earlier)
    /\ \A i \in 1..Len(get_calls) :
         get_calls[i].headers = ExpectedHeaders(session_init.headers, curl_history)

C10_Witness ==
  /\ Len(curl_history) = 2
  /\ curl_history[1].proxy = Str(<<"u", "@", "h">>)
  /\ curl_history[1].headers = [A |-> "2", B |-> "1"]
  /\ curl_args.proxy = Str(<<>>)
  /\ curl_args.headers = [A |-> "1"]
  /\ Len(get_calls) = 1
  /\ get_calls[1].proxies = [http |-> <<"u", "@", "h">>, https |-> <<"u", "@", "h">>]
  /\ get_calls[1].headers = [A |-> "1", B |-> "1"]

\* C3 (as claimed): when a call of either Playwright function has ended, by
\* return or by exception, nothing it started (driver, browser, context, page)
\* is still alive.
C3_NothingLeftAlive ==
  br_pc = "ended" => \A res \in live : res.call # br_calls

\* the mapping the route handler's records add up to: per URL, the headers of
\* the latest request for it
Recorded(rs) ==
  LET urls == { rs[i].url : i \in 1..Len(rs) }
  IN  [u \in urls |->
         rs[Max({ i \in 1..Len(rs) : rs[i].url = u })].headers]

\* C4: when context.new_page() or page.goto fails in get_header_for_requests,
\* the call returns (does not raise) the accumulator holding exactly what the
\* route handler recorded before the failure, and prints one line holding the
\* URL and the exception text.
C4_NavigationFailureSwallowed ==
  (br_fn = "get_header_for_requests" /\ br_pc = "ended"
     /\ hdr_failed_at.stmt \in {"new_page", "goto"}) =>
    /\ br_outcome.kind = "returned"
    /\ br_outcome.value = Recorded(routes)
    /\ Len(Printed) = 1
    /\ \E i \in 1..Len(Printed[1]) : Printed[1][i] = br_args.url
    /\ \E i \in 1..Len(Printed[1]) : Printed[1][i] = hdr_failed_at.exc

C4_Witness ==
  /\ br_fn = "get_header_for_requests"
  /\ br_pc = "ended"
  /\ hdr_failed_at = [stmt |-> "goto", exc |-> "TimeoutError"]
  /\ Len(routes) = 2
  /\ routes[1].url # routes[2].url
  /\ br_outcome.kind = "returned"
  /\ DOMAIN br_outcome.value = {routes[1].url, routes[2].url}

\* C5: every request the route handler is invoked for is continued exactly once
\* and never aborted, fulfilled or left pending, whether or not its headers end
\* up in the mapping.
C5_EveryRequestContinued ==
  \A i \in 1..Len(routes) :
    /\ routes[i].continued = 1
    /\ ~routes[i].aborted
    /\ ~routes[i].fulfilled

C5_Witness ==
  /\ br_pc = "ended"
  /\ Len(routes) = 2
  /\ routes[1].url = routes[2].url
  /\ routes[1].headers # routes[2].headers
  /\ br_outcome.kind = "returned"
  /\ br_outcome.value[routes[1].url] # routes[1].headers

\* the operations C8 names
C8Ops == {"launch", "new_context", "goto", "evaluate", "sleep", "capture", "close"}
IsC8Op(step) == step.op \in C8Ops

\* C8: a requests_with_playwright call that returns has launched the browser,
\* created the context (fixed viewport and user agent), navigated, evaluated the
\* script (iff one of positive length was given), slept for browser_wait,
\* captured the result and closed the browser, in this order and each once.
C8_StepOrder ==
  (br_fn = "requests_with_playwright" /\ br_pc = "ended"
     /\ br_outcome.kind = "returned") =>
    LET done == SelectSeq(steps, IsC8Op)
        script == br_args.page_evaluation
        given == ~script.isNone /\ Len(script.str) > 0
    IN  /\ [i \in 1..Len(done) |-> done[i].op] =
             <<"launch", "new_context", "goto">>
               \o (IF given THEN <<"evaluate">> ELSE <<>>)
               \o <<"sleep", "capture", "close">>
        /\ done[2].viewport = [width |-> 1920, height |-> 1080]
        /\ done[2].user_agent = USER_AGENT
        /\ done[Len(done) - 2].secs = br_args.browser_wait

C8_Witness ==
  /\ br_fn = "requests_with_playwright"
  /\ br_pc = "ended"
  /\ br_outcome.kind = "returned"
  /\ br_args.page_evaluation = Str(<<"j", "s">>)
  /\ \E i \in 1..Len(steps) : steps[i].op = "evaluate"
  /\ steps[Len(steps)].op = "close"

\* C9: the timeout handed to page.goto, in requests_with_playwright and in
\* get_header_for_requests, is the timeout argument times 1000.
C9_GotoTimeoutMillis ==
  \A i \in 1..Len(steps) :
    steps[i].op = "goto" => steps[i].timeout = br_args.timeout * 1000

C9_Witness ==
  /\ br_fn = "requests_with_playwright"
  /\ br_args.timeout = 30
  /\ \E i \in 1..Len(steps) : steps[i].op = "goto" /\ steps[i].timeout = 30000

====
